---- MODULE Spec2Model ----
(***************************************************************************)
(* A model of the Drools RAG API repository:                               *)
(*   - src/api_drools.py : the FastAPI service (startup hook, /health,      *)
(*     /generate, /info) around the imported DroolsRAGPipeline;            *)
(*   - src/setup_api.py  : the sequential bootstrap script.                *)
(* Texts are TLA+ strings; str.strip, the `in` substring test, len and     *)
(* strftime are computed character by character.                           *)
(* Two specifications share the variables: Spec (the service) keeps the    *)
(* bootstrap variables fixed, SpecSetup (the script) keeps the service     *)
(* variables fixed.                                                        *)
(***************************************************************************)
EXTENDS Integers, Sequences, FiniteSets, TLC

VARIABLES
    phase,          \* process lifecycle: "boot", "serving", "failed"
    pipeline,       \* the module global `pipeline`: None or a reference
    pipelineState,  \* fields of the DroolsRAGPipeline object behind the reference
    pipelineWrites, \* number of assignments to the global so far
    served,         \* TRUE once any request handler has run
    last,           \* the last request handled: inputs, collaborator calls, response
    pc,             \* bootstrap: position of the script
    run,            \* bootstrap: number of the current run of the script
    disk,           \* bootstrap: what is on disk
    log,            \* bootstrap: what the current run has done so far
    exitCode,       \* bootstrap: exit status of the current run ("none" while running)
    atStart,        \* bootstrap: the disk when the current run started
    prev,           \* bootstrap: how the previous run ended and the disk it left
    osName          \* bootstrap: os.name of the machine, "nt" or "posix"

apiVars == <<phase, pipeline, pipelineState, pipelineWrites, served, last>>
setupVars == <<pc, run, disk, log, exitCode, atStart, prev, osName>>
vars == <<phase, pipeline, pipelineState, pipelineWrites, served, last,
          pc, run, disk, log, exitCode, atStart, prev, osName>>

(***************************************************************************)
(* Bounds of the model                                                     *)
(***************************************************************************)
MaxQueryLen == 4    \* queries of 0..MaxQueryLen characters
MaxCodeLen == 3     \* generated code of 0..MaxCodeLen characters (plus samples)
MaxMeta == 2        \* metadata lists of 0..MaxMeta entries
MaxRuns == 3        \* consecutive runs of the bootstrap script

(***************************************************************************)
(* Text helpers                                                            *)
(***************************************************************************)
\* Python's str.strip() with no argument removes these characters (ASCII part).
Whitespace == {" ", "\t", "\n", "\r", "\f"}

RECURSIVE lstrip(_)
lstrip(s) ==
    IF Len(s) > 0 /\ SubSeq(s, 1, 1) \in Whitespace THEN lstrip(Tail(s)) ELSE s

RECURSIVE rstrip(_)
rstrip(s) ==
    IF Len(s) > 0 /\ SubSeq(s, Len(s), Len(s)) \in Whitespace
    THEN rstrip(SubSeq(s, 1, Len(s) - 1))
    ELSE s

\* A plausible slip: only the leading whitespace is removed.
strip_leading_only(s) == lstrip(s)

strip(s) == rstrip(lstrip(s))

\* Python's `sub in s` for strings.
Contains(sub, s) ==
    \E i \in 1..(Len(s) - Len(sub) + 1) : SubSeq(s, i, i + Len(sub) - 1) = sub

RECURSIVE StringsUpTo(_, _)
StringsUpTo(alphabet, n) ==
    IF n = 0 THEN {""}
    ELSE LET P == StringsUpTo(alphabet, n - 1)
         IN  P \cup {p \o c : p \in P, c \in alphabet}

Digits == "0123456789"

\* strftime's %m, %d, %H, %M: two decimal digits, zero padded.
Pad2(n) ==
    SubSeq(Digits, (n \div 10) + 1, (n \div 10) + 1)
        \o SubSeq(Digits, (n % 10) + 1, (n % 10) + 1)

strftime(now) ==
    Pad2(now.month) \o "_" \o Pad2(now.day) \o "_"
        \o Pad2(now.hour) \o "_" \o Pad2(now.minute)

(***************************************************************************)
(* Request model (GenerateRequest)                                         *)
(***************************************************************************)
MinQueryLen == 3
KMin == 1
KMax == 50
KDefault == 15

Queries == StringsUpTo({"q"}, MaxQueryLen)
KValues == {KMin - 1, KMin, KMax, KMax + 1}

\* JSON bodies: k given, or k omitted.
Bodies == [query : Queries, k : KValues] \cup [query : Queries]

\* A slip in the bound of k: le=50 dropped.
GenerateRequest_no_upper(body) ==
    LET k == IF "k" \in DOMAIN body THEN body.k ELSE KDefault
    IN  IF Len(body.query) >= MinQueryLen /\ k >= KMin
        THEN [ok |-> TRUE, query |-> body.query, k |-> k]
        ELSE [ok |-> FALSE]

\* pydantic validation of the body against the declared Field constraints.
GenerateRequest(body) ==
    LET k == IF "k" \in DOMAIN body THEN body.k ELSE KDefault
    IN  IF Len(body.query) >= MinQueryLen /\ k >= KMin /\ k <= KMax
        THEN [ok |-> TRUE, query |-> body.query, k |-> k]
        ELSE [ok |-> FALSE]

(***************************************************************************)
(* External collaborators (black boxes)                                    *)
(***************************************************************************)
None == "None"
PipelineRef == "DroolsRAGPipeline"

FormNotFound == "Form content not found"
JavaNotFound == "Java model file not found"

Absent == [exists |-> FALSE, readable |-> FALSE, content |-> ""]
Unreadable == [exists |-> TRUE, readable |-> FALSE, content |-> ""]
File(text) == [exists |-> TRUE, readable |-> TRUE, content |-> text]

FormFiles ==
    {Absent, Unreadable, File(""), File("form"),
     File("<p>Form content not found</p>")}
JavaFiles ==
    {Absent, Unreadable, File("class A {}"),
     File("// Java model file not found")}

Returned(v) == [raised |-> FALSE, value |-> v]
Raised(type, msg) == [raised |-> TRUE, exc |-> [type |-> type, msg |-> msg]]

\* The loaders return a sentinel text when the file is absent, rather than failing.
load_form(file) ==
    IF ~file.exists THEN Returned(FormNotFound)
    ELSE IF ~file.readable THEN Raised("PermissionError", "form denied")
    ELSE Returned(file.content)

load_java_model(file) ==
    IF ~file.exists THEN Returned(JavaNotFound)
    ELSE IF ~file.readable THEN Raised("PermissionError", "model denied")
    ELSE Returned(file.content)

Codes == StringsUpTo({" ", "r"}, MaxCodeLen) \cup {"\n r\t", "  rule X end  "}
ChunkLists == {<<>>, <<[content |-> "chunk", score |-> 1]>>}

\* What pipeline.generate_drools may do: return (code, chunks) or raise.
GenOutcomes ==
    {Returned(<<c, ch>>) : c \in Codes, ch \in ChunkLists}
        \cup {Raised("FileNotFoundError", "prompt.txt"),
              Raised("RuntimeError", "llm down"),
              Raised("RuntimeError", "timeout")}

Times ==
    {[month |-> 1, day |-> 5, hour |-> 0, minute |-> 9],
     [month |-> 12, day |-> 31, hour |-> 23, minute |-> 59]}

RECURSIVE SeqsUpTo(_, _)
SeqsUpTo(S, n) ==
    IF n = 0 THEN {<<>>}
    ELSE LET P == SeqsUpTo(S, n - 1)
         IN  P \cup {Append(p, x) : p \in P, x \in S}

\* pipeline.metadata: None, or a list of entries.
MetadataValues ==
    {[isNone |-> TRUE, entries |-> <<>>]}
        \cup {[isNone |-> FALSE, entries |-> e] : e \in SeqsUpTo({"m"}, MaxMeta)}
IndexValues == {None, "Index"}

\* The object right after DroolsRAGPipeline(): nothing loaded yet.
Constructed ==
    [loaded |-> FALSE, index |-> None,
     metadata |-> [isNone |-> TRUE, entries |-> <<>>]]
NoObject == Constructed

(***************************************************************************)
(* HTTP responses                                                          *)
(***************************************************************************)
HTTPException(status, detail) ==
    [kind |-> "error", status |-> status, detail |-> detail]

ValidationError == [kind |-> "validation", status |-> 422]

FileResponse(content, filename) ==
    [kind |-> "file", status |-> 200, content |-> content,
     media_type |-> "application/octet-stream",
     content_disposition |-> "attachment; filename=" \o filename]

JSONResponse(body) == [kind |-> "json", status |-> 200, body |-> body]

\* One call of a collaborator: its arguments, the external file it read (if any)
\* and what it returned or raised.
Call(fn, args, file, out) == [fn |-> fn, args |-> args, file |-> file, out |-> out]
NoFile == [none |-> TRUE]

NoRequest == [op |-> "none"]

(***************************************************************************)
(* Startup hook                                                            *)
(***************************************************************************)
\* Outcomes of DroolsRAGPipeline() and of pipeline.load_vector_db().
CtorOutcomes == {Returned(Constructed), Raised("ValueError", "no api key")}
LoadOutcomes ==
    {Returned([loaded |-> TRUE, index |-> i, metadata |-> m]) :
        i \in IndexValues, m \in MetadataValues}
        \cup {Raised("FileNotFoundError", "index.faiss")}

\* A slip: the load error is logged and swallowed, the service comes up anyway.
startup_event_swallow(ctor, load) ==
    IF ctor.raised
    THEN [pipeline |-> None, object |-> NoObject, writes |-> 0, raised |-> TRUE,
          error |-> "Failed to initialize pipeline: " \o ctor.exc.msg]
    ELSE IF load.raised
    THEN [pipeline |-> PipelineRef, object |-> ctor.value, writes |-> 1,
          raised |-> FALSE, error |-> ""]
    ELSE [pipeline |-> PipelineRef, object |-> load.value, writes |-> 1,
          raised |-> FALSE, error |-> ""]

\* startup_event: the global is assigned as soon as the constructor returns,
\* before load_vector_db() runs; any exception becomes a RuntimeError.
startup_event(ctor, load) ==
    IF ctor.raised
    THEN [pipeline |-> None, object |-> NoObject, writes |-> 0, raised |-> TRUE,
          error |-> "Failed to initialize pipeline: " \o ctor.exc.msg]
    ELSE IF load.raised
    THEN [pipeline |-> PipelineRef, object |-> ctor.value, writes |-> 1,
          raised |-> TRUE,
          error |-> "Failed to initialize pipeline: " \o load.exc.msg]
    ELSE [pipeline |-> PipelineRef, object |-> load.value, writes |-> 1,
          raised |-> FALSE, error |-> ""]

(***************************************************************************)
(* Request handlers                                                        *)
(***************************************************************************)
health_check ==
    JSONResponse([status |-> "healthy", pipeline_loaded |-> pipeline # None,
                  message |-> "Drools RAG API is running"])

\* The two except clauses of generate_drools_file.
ExceptGenerate(e) ==
    IF e.type = "FileNotFoundError"
    THEN HTTPException(400, "Required file not found: " \o e.msg)
    ELSE HTTPException(500, "Error generating Drools code: " \o e.msg)

\* A slip: the guard on the global is missing.
generate_drools_file_unguarded(request, env) ==
    LET form == load_form(env.formFile)
        java == load_java_model(env.javaFile)
        c1 == <<Call("load_form", <<>>, env.formFile, form)>>
        c2 == Append(c1, Call("load_java_model", <<>>, env.javaFile, java))
        args == <<request.query, form.value, java.value, request.k>>
        c3 == Append(c2, Call("generate_drools", args, NoFile, env.gen))
    IN  IF form.raised THEN [calls |-> c1, resp |-> ExceptGenerate(form.exc)]
        ELSE IF java.raised THEN [calls |-> c2, resp |-> ExceptGenerate(java.exc)]
        ELSE IF env.gen.raised
        THEN [calls |-> c3, resp |-> ExceptGenerate(env.gen.exc)]
        ELSE [calls |-> c3,
              resp |-> FileResponse(strip(env.gen.value[1]),
                          "generated_rule_" \o strftime(env.now) \o ".drl")]

\* A slip: a failed generation is tried once more before giving up.
generate_drools_file_retry(request, env) ==
    LET base == generate_drools_file_unguarded(request, env)
    IN  IF pipeline = None
        THEN [calls |-> <<>>,
              resp |-> HTTPException(503, "Pipeline not initialized. Check server logs.")]
        ELSE IF Len(base.calls) = 3 /\ env.gen.raised
        THEN [calls |-> Append(base.calls, base.calls[3]), resp |-> base.resp]
        ELSE base

\* generate_drools_file, for a request that passed validation.
generate_drools_file(request, env) ==
    IF pipeline = None
    THEN [calls |-> <<>>,
          resp |-> HTTPException(503, "Pipeline not initialized. Check server logs.")]
    ELSE
        LET form == load_form(env.formFile)
            java == load_java_model(env.javaFile)
            c1 == <<Call("load_form", <<>>, env.formFile, form)>>
            c2 == Append(c1, Call("load_java_model", <<>>, env.javaFile, java))
            args == <<request.query, form.value, java.value, request.k>>
            c3 == Append(c2, Call("generate_drools", args, NoFile, env.gen))
        IN  IF form.raised THEN [calls |-> c1, resp |-> ExceptGenerate(form.exc)]
            ELSE IF java.raised
            THEN [calls |-> c2, resp |-> ExceptGenerate(java.exc)]
            ELSE IF env.gen.raised
            THEN [calls |-> c3, resp |-> ExceptGenerate(env.gen.exc)]
            ELSE [calls |-> c3,
                  resp |-> FileResponse(strip(env.gen.value[1]),
                              "generated_rule_" \o strftime(env.now) \o ".drl")]

\* FastAPI validates the body first; the handler body runs only for a valid one.
PostGenerate(body, env) ==
    LET request == GenerateRequest(body)
    IN  IF request.ok THEN generate_drools_file(request, env)
        ELSE [calls |-> <<>>, resp |-> ValidationError]

\* A slip: the sentinel test replaced by an emptiness test.
get_info_nonempty(env) ==
    LET form == load_form(env.formFile)
        java == load_java_model(env.javaFile)
        c1 == <<Call("load_form", <<>>, env.formFile, form)>>
        c2 == Append(c1, Call("load_java_model", <<>>, env.javaFile, java))
        md == pipelineState.metadata
    IN  IF pipeline = None
        THEN [calls |-> <<>>, resp |-> HTTPException(503, "Pipeline not initialized")]
        ELSE IF form.raised
        THEN [calls |-> c1, resp |-> HTTPException(500, form.exc.msg)]
        ELSE IF java.raised
        THEN [calls |-> c2, resp |-> HTTPException(500, java.exc.msg)]
        ELSE [calls |-> c2,
              resp |-> JSONResponse(
                  [form_loaded |-> Len(form.value) > 0,
                   form_size |-> Len(form.value),
                   java_model_loaded |-> Len(java.value) > 0,
                   java_model_size |-> Len(java.value),
                   faiss_index_loaded |-> pipelineState.index # None,
                   metadata_loaded |-> ~md.isNone,
                   metadata_entries |->
                       IF ~md.isNone /\ Len(md.entries) > 0
                       THEN Len(md.entries) ELSE 0])]

get_info(env) ==
    LET form == load_form(env.formFile)
        java == load_java_model(env.javaFile)
        c1 == <<Call("load_form", <<>>, env.formFile, form)>>
        c2 == Append(c1, Call("load_java_model", <<>>, env.javaFile, java))
        md == pipelineState.metadata
    IN  IF pipeline = None
        THEN [calls |-> <<>>, resp |-> HTTPException(503, "Pipeline not initialized")]
        ELSE IF form.raised
        THEN [calls |-> c1, resp |-> HTTPException(500, form.exc.msg)]
        ELSE IF java.raised
        THEN [calls |-> c2, resp |-> HTTPException(500, java.exc.msg)]
        ELSE [calls |-> c2,
              resp |-> JSONResponse(
                  [form_loaded |-> ~Contains(FormNotFound, form.value),
                   form_size |-> Len(form.value),
                   java_model_loaded |-> ~Contains(JavaNotFound, java.value),
                   java_model_size |-> Len(java.value),
                   faiss_index_loaded |-> pipelineState.index # None,
                   metadata_loaded |-> ~md.isNone,
                   metadata_entries |->
                       IF ~md.isNone /\ Len(md.entries) > 0
                       THEN Len(md.entries) ELSE 0])]

(***************************************************************************)
(* Inputs of the requests                                                  *)
(***************************************************************************)
BaseEnv ==
    [formFile |-> File("form"), javaFile |-> File("class A {}"),
     gen |-> Returned(<<"  rule X end  ", <<>>>>),
     now |-> [month |-> 1, day |-> 5, hour |-> 0, minute |-> 9]]

FileEnvs ==
    {[BaseEnv EXCEPT !.formFile = f, !.javaFile = j] :
        f \in FormFiles, j \in JavaFiles}

SampleBodies == {[query |-> "qqq"], [query |-> "qqqq", k |-> KMax]}

SampleGen ==
    {BaseEnv.gen, Raised("FileNotFoundError", "prompt.txt"),
     Raised("RuntimeError", "llm down")}

\* The (body, environment) pairs tried for POST /generate: every body on the base
\* environment, every pair of files with sample bodies and outcomes, and every
\* generation outcome and time on the base files.
GenerateInputs ==
    {<<b, BaseEnv>> : b \in Bodies}
        \cup {<<b, [e EXCEPT !.gen = g]>> : b \in SampleBodies, e \in FileEnvs,
                                           g \in SampleGen}
        \cup {<<b, [BaseEnv EXCEPT !.gen = g]>> : b \in SampleBodies, g \in GenOutcomes}
        \cup {<<b, [BaseEnv EXCEPT !.now = t]>> : b \in SampleBodies, t \in Times}

(***************************************************************************)
(* The bootstrap script                                                    *)
(***************************************************************************)
NoScript == [name |-> "", app |-> "", mode |-> ""]

\* A machine on which nothing has been set up yet.
FreshDisk ==
    [repo |-> FALSE, venv |-> FALSE, requirements |-> "absent",
     pipUpgraded |-> FALSE, installed |-> FALSE, env |-> "absent",
     script |-> NoScript]

\* The directory Drools-api may also exist before the first run.
InitialDisks ==
    {FreshDisk}
        \cup {[FreshDisk EXCEPT !.repo = TRUE, !.venv = v, !.requirements = r,
                                !.env = e] :
                 v \in BOOLEAN, r \in {"absent", "repo"},
                 e \in {"absent", "OPENAI_API_KEY=mine\n"}}

SetupIdle ==
    /\ pc = "idle" /\ run = 0 /\ log = <<>> /\ exitCode = "none"
    /\ disk = FreshDisk /\ atStart = FreshDisk
    /\ prev = [ended |-> "none", disk |-> FreshDisk]
    /\ osName = "posix"

ApiIdle ==
    /\ phase = "boot" /\ pipeline = None /\ pipelineState = NoObject
    /\ pipelineWrites = 0 /\ served = FALSE /\ last = NoRequest

Step(name, ok) == [step |-> name, ok |-> ok]

\* A slip: the failure of the command is reported but the script goes on.
run_command_no_exit(ok) == "return"

\* run_command: returns when the command exits 0, sys.exit(1) otherwise.
run_command(ok) == IF ok THEN "return" ELSE "exit"

\* sys.exit(1): the run ends here, whatever was to follow.
Exit1 == pc' = "exited" /\ exitCode' = 1

InitSetup ==
    /\ ApiIdle
    /\ pc = "idle" /\ run = 0 /\ log = <<>> /\ exitCode = "none"
    /\ disk \in InitialDisks /\ atStart = disk
    /\ prev = [ended |-> "none", disk |-> disk]
    /\ osName \in {"nt", "posix"}

\* The script is started (again): `python setup_api.py`.
StartRun ==
    /\ pc \in {"idle", "done", "exited"}
    /\ run < MaxRuns
    /\ run' = run + 1
    /\ pc' = "git_check"
    /\ log' = <<>>
    /\ exitCode' = "none"
    /\ atStart' = disk
    /\ prev' = [ended |-> IF pc = "idle" THEN "none"
                          ELSE IF pc = "done" THEN "ok" ELSE "failed",
                disk |-> disk]
    /\ UNCHANGED <<disk, osName, apiVars>>

\* main: run_command(["git", "--version"])
GitCheck ==
    /\ pc = "git_check"
    /\ \E ok \in BOOLEAN :
           /\ log' = Append(log, Step("git --version", ok))
           /\ IF run_command(ok) = "exit" THEN Exit1
              ELSE pc' = "clone" /\ UNCHANGED exitCode
    /\ UNCHANGED <<run, disk, atStart, prev, osName, apiVars>>

\* A slip: the existence test is missing, the repository is cloned every time.
clone_repository_always ==
    /\ pc = "clone"
    /\ \E ok \in BOOLEAN, manifest \in {"absent", "repo"} :
           /\ log' = Append(log, Step("git clone", ok))
           /\ IF run_command(ok) = "exit"
              THEN Exit1 /\ UNCHANGED disk
              ELSE /\ disk' = [disk EXCEPT !.repo = TRUE,
                                            !.requirements = manifest]
                   /\ pc' = "venv" /\ UNCHANGED exitCode
    /\ UNCHANGED <<run, atStart, prev, osName, apiVars>>

\* clone_repository: skipped when the directory exists; the clone may or may
\* not bring a requirements.txt.
clone_repository ==
    /\ pc = "clone"
    /\ IF disk.repo
       THEN pc' = "venv" /\ UNCHANGED <<disk, log, exitCode>>
       ELSE \E ok \in BOOLEAN, manifest \in {"absent", "repo"} :
               /\ log' = Append(log, Step("git clone", ok))
               /\ IF run_command(ok) = "exit"
                  THEN Exit1 /\ UNCHANGED disk
                  ELSE /\ disk' = [disk EXCEPT !.repo = TRUE,
                                                !.requirements = manifest]
                       /\ pc' = "venv" /\ UNCHANGED exitCode
    /\ UNCHANGED <<run, atStart, prev, osName, apiVars>>

\* create_virtual_environment: skipped when venv/ exists.
create_virtual_environment ==
    /\ pc = "venv"
    /\ IF disk.venv
       THEN UNCHANGED <<disk, log>>
       ELSE /\ disk' = [disk EXCEPT !.venv = TRUE]
            /\ log' = Append(log, Step("venv.create", TRUE))
    /\ pc' = "install"
    /\ UNCHANGED <<run, exitCode, atStart, prev, osName, apiVars>>

\* install_requirements: writes a basic requirements.txt when there is none,
\* then upgrades pip and installs the requirements, every time.
install_requirements ==
    /\ pc = "install"
    /\ \E upgradeOk \in BOOLEAN, installOk \in BOOLEAN :
           LET written == disk.requirements = "absent"
               d1 == IF written THEN [disk EXCEPT !.requirements = "basic"] ELSE disk
               l1 == IF written
                     THEN Append(log, Step("write requirements.txt", TRUE))
                     ELSE log
               l2 == Append(l1, Step("pip upgrade", upgradeOk))
               d2 == [d1 EXCEPT !.pipUpgraded = TRUE]
               l3 == Append(l2, Step("pip install", installOk))
               d3 == [d2 EXCEPT !.installed = TRUE]
           IN  IF run_command(upgradeOk) = "exit"
               THEN disk' = d1 /\ log' = l2 /\ Exit1
               ELSE IF run_command(installOk) = "exit"
               THEN disk' = d2 /\ log' = l3 /\ Exit1
               ELSE /\ disk' = IF installOk THEN d3 ELSE d2
                    /\ log' = l3
                    /\ pc' = "env" /\ UNCHANGED exitCode
    /\ UNCHANGED <<run, atStart, prev, osName, apiVars>>

\* create_env_file: skipped when .env exists; otherwise the key typed by the
\* user, stripped, or a placeholder.
create_env_file ==
    /\ pc = "env"
    /\ IF disk.env # "absent"
       THEN UNCHANGED <<disk, log>>
       ELSE \E typed \in {"", " ", " sk-1 "} :
               LET api_key == strip(typed)
                   env_content ==
                       IF api_key # ""
                       THEN "OPENAI_API_KEY=" \o api_key \o "\n"
                       ELSE "OPENAI_API_KEY=your_api_key_here\n"
               IN  /\ disk' = [disk EXCEPT !.env = env_content]
                   /\ log' = Append(log, Step("write .env", TRUE))
    /\ pc' = "script"
    /\ UNCHANGED <<run, exitCode, atStart, prev, osName, apiVars>>

\* create_run_script: always (re)writes the launch script of the platform;
\* main then returns and the process exits 0.
create_run_script ==
    /\ pc = "script"
    /\ disk' = [disk EXCEPT !.script =
                  IF osName = "nt"
                  THEN [name |-> "run_api.bat", app |-> "api_drools:app", mode |-> ""]
                  ELSE [name |-> "run_api.sh", app |-> "api_main:app", mode |-> "755"]]
    /\ log' = Append(log, Step("write run script", TRUE))
    /\ pc' = "done"
    /\ exitCode' = 0
    /\ UNCHANGED <<run, atStart, prev, osName, apiVars>>

NextSetup ==
    \/ StartRun
    \/ GitCheck
    \/ clone_repository
    \/ create_virtual_environment
    \/ install_requirements
    \/ create_env_file
    \/ create_run_script

SpecSetup == InitSetup /\ [][NextSetup]_vars

(***************************************************************************)
(* The service                                                             *)
(***************************************************************************)
\* The process is either started by a server that runs the startup hook first
\* ("boot"), or its handlers are served without the hook having run ("serving"
\* with the global still None).
Init ==
    /\ phase \in {"boot", "serving"}
    /\ pipeline = None
    /\ pipelineState = NoObject
    /\ pipelineWrites = 0
    /\ served = FALSE
    /\ last = NoRequest
    /\ SetupIdle

Startup ==
    /\ phase = "boot"
    /\ \E ctor \in CtorOutcomes, load \in LoadOutcomes :
           LET r == startup_event(ctor, load)
           IN  /\ pipeline' = r.pipeline
               /\ pipelineState' = r.object
               /\ pipelineWrites' = pipelineWrites + r.writes
               /\ phase' = IF r.raised THEN "failed" ELSE "serving"
    /\ UNCHANGED <<served, last, setupVars>>

Health ==
    /\ phase = "serving"
    /\ last' = [op |-> "health", pipeline |-> pipeline, calls |-> <<>>,
                resp |-> health_check]
    /\ served' = TRUE
    /\ UNCHANGED <<phase, pipeline, pipelineState, pipelineWrites, setupVars>>

\* A slip: a handler that finds the global unset initializes it itself.
Generate_lazy_init ==
    /\ phase = "serving"
    /\ pipeline = None
    /\ pipeline' = PipelineRef
    /\ pipelineState' = Constructed
    /\ pipelineWrites' = pipelineWrites + 1
    /\ served' = TRUE
    /\ last' = [op |-> "generate", pipeline |-> pipeline, body |-> [query |-> "qqq"],
                gen |-> BaseEnv.gen, now |-> BaseEnv.now, calls |-> <<>>,
                resp |-> HTTPException(503, "Pipeline not initialized. Check server logs.")]
    /\ UNCHANGED <<phase, setupVars>>

Generate ==
    /\ phase = "serving"
    /\ \E in \in GenerateInputs :
           LET r == PostGenerate(in[1], in[2])
           IN  last' = [op |-> "generate", pipeline |-> pipeline, body |-> in[1],
                        gen |-> in[2].gen, now |-> in[2].now,
                        calls |-> r.calls, resp |-> r.resp]
    /\ served' = TRUE
    /\ UNCHANGED <<phase, pipeline, pipelineState, pipelineWrites, setupVars>>

Info ==
    /\ phase = "serving"
    /\ \E e \in FileEnvs :
           LET r == get_info(e)
           IN  last' = [op |-> "info", pipeline |-> pipeline,
                        calls |-> r.calls, resp |-> r.resp]
    /\ served' = TRUE
    /\ UNCHANGED <<phase, pipeline, pipelineState, pipelineWrites, setupVars>>

Next == Startup \/ Health \/ Generate \/ Info

Spec == Init /\ [][Next]_vars

(***************************************************************************)
(* Properties of the service                                               *)
(***************************************************************************)
\* The body satisfies the documented constraints (query of 3 or more
\* characters, k absent or in 1..50).
ValidBody(b) == Len(b.query) >= 3 /\ ("k" \in DOMAIN b => b.k \in 1..50)

IsRequest(op) == last.op = op
CallsOf(fn) == {i \in DOMAIN last.calls : last.calls[i].fn = fn}
RaisedCalls == {i \in DOMAIN last.calls : last.calls[i].out.raised}

\* C1 as stated: every POST /generate or GET /info that arrives while the
\* handle is unset is answered 503 and makes no collaborator call.
C1_Original ==
    (last.op \in {"generate", "info"} /\ last.pipeline = None)
        => (last.resp.status = 503 /\ last.calls = <<>>)

\* C1 amended: with the handle unset, GET /info and every POST /generate whose
\* body passes validation are answered 503 "not ready" (an invalid body is
\* answered 422 instead); in both cases no loader and no pipeline operation is
\* called, and generate_drools is never called with the handle unset.
C1_NotReady ==
    /\ (last.op \in {"generate", "info"} /\ last.pipeline = None)
          => /\ last.calls = <<>>
             /\ (last.op = "info" \/ ValidBody(last.body))
                   => (last.resp.kind = "error" /\ last.resp.status = 503)
             /\ (last.op = "generate" /\ ~ValidBody(last.body))
                   => last.resp.status = 422
    /\ (last.op \in {"generate", "info"} /\ last.calls # <<>>)
          => last.pipeline # None

C1_Witness ==
    /\ IsRequest("generate") /\ last.pipeline = None
    /\ ValidBody(last.body) /\ last.resp.status = 503

\* C2: a POST /generate whose query has fewer than 3 characters or whose k is
\* outside 1..50 is answered with the validation error 422 and calls nothing,
\* whether or not the handle is set; an omitted k reaches the pipeline as 15.
C2_Validation ==
    IsRequest("generate") =>
        /\ ~ValidBody(last.body)
              => /\ last.resp.kind = "validation" /\ last.resp.status = 422
                 /\ last.calls = <<>>
        /\ ValidBody(last.body) => last.resp.kind # "validation"
        /\ \A i \in CallsOf("generate_drools") :
              last.calls[i].args[4] =
                  (IF "k" \in DOMAIN last.body THEN last.body.k ELSE 15)

C2_Witness ==
    /\ IsRequest("generate") /\ last.pipeline # None
    /\ Len(last.body.query) >= 3 /\ "k" \in DOMAIN last.body /\ last.body.k = 51
    /\ last.resp.status = 422

\* C3 as stated: whenever the handle is set, construction and the
\* vector-database load have both completed.
C3_Original == pipeline # None => pipelineState.loaded

\* C3 amended: whenever the service is serving requests with the handle set,
\* construction and the load have both completed; a startup in which either
\* step raised ends in the fatal state, in which no request is ever handled
\* (the handle itself may be set there: it is assigned before the load).
C3_NoHalfInitializedService ==
    /\ (phase = "serving" /\ pipeline # None) => pipelineState.loaded
    /\ phase = "failed" => (~served /\ last = NoRequest)
    /\ (pipelineWrites > 0 /\ ~pipelineState.loaded) => phase = "failed"
    /\ (last.op = "generate" /\ CallsOf("generate_drools") # {})
          => pipelineState.loaded

C3_Witness == phase = "failed" /\ pipeline # None /\ ~pipelineState.loaded

\* C4: the handle is written at most once, by the startup routine only and
\* before any request is handled; no handler writes it, and once set it never
\* becomes unset again.
C4_WriteOnce ==
    [][/\ pipeline' # pipeline
            => /\ phase = "boot" /\ ~served /\ pipeline = None
               /\ pipelineWrites = 0 /\ pipelineWrites' = 1
       /\ pipeline # None => pipeline' = pipeline
       /\ served => (pipeline' = pipeline /\ pipelineState' = pipelineState)
       /\ pipelineWrites' \in {pipelineWrites, 1}]_vars

C4_Witness ==
    /\ pipeline # None /\ pipelineWrites = 1 /\ served
    /\ IsRequest("generate") /\ last.resp.status = 500

\* C5 as stated: a valid POST /generate with the handle set, for which the
\* form template or the Java model file is missing, ends in 400 and returns
\* no generated code.
C5_MissingFileIs400 ==
    (/\ IsRequest("generate") /\ last.pipeline # None /\ ValidBody(last.body)
     /\ \E i \in DOMAIN last.calls :
           /\ last.calls[i].fn \in {"load_form", "load_java_model"}
           /\ ~last.calls[i].file.exists)
        => (last.resp.status = 400 /\ last.resp.kind # "file")

\* C6: for a valid POST /generate with the handle set, an exception other than
\* FileNotFoundError from a loader or from generate_drools gives the 500
\* response carrying its message; generate_drools is called at most once,
\* nothing is called after a call that raised, and an error response carries
\* no generated content.
C6_InternalError ==
    (IsRequest("generate") /\ last.pipeline # None /\ ValidBody(last.body)) =>
        /\ Cardinality(CallsOf("generate_drools")) <= 1
        /\ \A i \in RaisedCalls :
              /\ i = Len(last.calls)
              /\ last.resp.kind = "error"
              /\ last.calls[i].out.exc.type # "FileNotFoundError"
                    => /\ last.resp.status = 500
                       /\ last.resp.detail =
                              "Error generating Drools code: "
                                  \o last.calls[i].out.exc.msg
              /\ last.calls[i].fn # "generate_drools"
                    => CallsOf("generate_drools") = {}
        /\ last.resp.kind = "error"
              => (RaisedCalls # {} /\ DOMAIN last.resp = {"kind", "status", "detail"})

C6_Witness ==
    /\ IsRequest("generate") /\ last.resp.status = 500
    /\ Len(last.calls) = 3 /\ last.calls[3].out.raised
    /\ last.calls[3].out.exc.type = "RuntimeError"

AllWhitespace(s) == \A i \in 1..Len(s) : SubSeq(s, i, i) \in Whitespace

\* b is s without its leading and trailing whitespace, nothing else changed.
IsTrimOf(b, s) ==
    /\ \E i \in 0..Len(s), j \in 0..Len(s) :
          /\ i + Len(b) + j = Len(s)
          /\ SubSeq(s, i + 1, i + Len(b)) = b
          /\ AllWhitespace(SubSeq(s, 1, i))
          /\ AllWhitespace(SubSeq(s, i + Len(b) + 1, Len(s)))
    /\ Len(b) > 0 => /\ SubSeq(b, 1, 1) \notin Whitespace
                     /\ SubSeq(b, Len(b), Len(b)) \notin Whitespace

DigitValue(c) == CHOOSE d \in 0..9 : SubSeq(Digits, d + 1, d + 1) = c
TwoDigits(s, at) ==
    IF \A i \in {at, at + 1} : \E d \in 0..9 : SubSeq(Digits, d + 1, d + 1) = SubSeq(s, i, i)
    THEN 10 * DigitValue(SubSeq(s, at, at)) + DigitValue(SubSeq(s, at + 1, at + 1))
    ELSE -1

\* h is "attachment; filename=generated_rule_MM_DD_HH_MM.drl" for the time t.
IsAttachmentHeader(h, t) ==
    LET pre == "attachment; filename=generated_rule_"
        n == Len(pre)
    IN  /\ Len(h) = n + 11 + 4
        /\ SubSeq(h, 1, n) = pre
        /\ TwoDigits(h, n + 1) = t.month /\ SubSeq(h, n + 3, n + 3) = "_"
        /\ TwoDigits(h, n + 4) = t.day /\ SubSeq(h, n + 6, n + 6) = "_"
        /\ TwoDigits(h, n + 7) = t.hour /\ SubSeq(h, n + 9, n + 9) = "_"
        /\ TwoDigits(h, n + 10) = t.minute
        /\ SubSeq(h, n + 12, n + 15) = ".drl"

\* C7: a valid POST /generate with the handle set and no failure calls
\* generate_drools exactly once, with (query, form content, Java-model content,
\* k); the 200 response is the returned code trimmed of leading and trailing
\* whitespace, as an application/octet-stream attachment named
\* generated_rule_MM_DD_HH_MM.drl, and holds nothing else (no chunks).
C7_Success ==
    (/\ IsRequest("generate") /\ last.pipeline # None /\ ValidBody(last.body)
     /\ RaisedCalls = {} /\ ~last.gen.raised) =>
        /\ Len(last.calls) = 3
        /\ last.calls[1].fn = "load_form" /\ last.calls[2].fn = "load_java_model"
        /\ last.calls[3].fn = "generate_drools"
        /\ last.calls[3].args =
              <<last.body.query, last.calls[1].out.value, last.calls[2].out.value,
                IF "k" \in DOMAIN last.body THEN last.body.k ELSE 15>>
        /\ last.calls[3].out = last.gen
        /\ DOMAIN last.resp =
              {"kind", "status", "content", "media_type", "content_disposition"}
        /\ last.resp.status = 200
        /\ last.resp.media_type = "application/octet-stream"
        /\ IsTrimOf(last.resp.content, last.gen.value[1])
        /\ IsAttachmentHeader(last.resp.content_disposition, last.now)

C7_Witness ==
    /\ IsRequest("generate") /\ ~last.gen.raised
    /\ last.gen.value[1] = "\n r\t" /\ last.gen.value[2] # <<>>
    /\ last.resp.kind = "file" /\ last.resp.content = "r"
    /\ last.body = [query |-> "qqqq", k |-> 50]

Occurs(p, t) == \E i \in 1..Len(t) : i + Len(p) - 1 <= Len(t) /\ SubSeq(t, i, i + Len(p) - 1) = p

\* C8 as stated: form_loaded (java_model_loaded) is false exactly when the
\* loader returned its "not found" sentinel, that is, when the file is absent.
C8_Original ==
    (IsRequest("info") /\ last.resp.kind = "json") =>
        /\ last.resp.body.form_loaded = last.calls[1].file.exists
        /\ last.resp.body.java_model_loaded = last.calls[2].file.exists

\* C8 amended: form_loaded (java_model_loaded) is false exactly when the text
\* the loader returned contains "Form content not found" ("Java model file not
\* found"), which covers the sentinel of an absent file and also a file whose
\* own content holds that phrase, and true otherwise, empty content included;
\* the sizes are the lengths of the returned texts; metadata_entries is 0 for
\* absent metadata and the entry count otherwise; an exception gives 500.
C8_Info ==
    (IsRequest("info") /\ last.pipeline # None) =>
        /\ RaisedCalls = {} =>
              LET form == last.calls[1].out.value
                  java == last.calls[2].out.value
                  body == last.resp.body
              IN  /\ Len(last.calls) = 2 /\ last.resp.status = 200
                  /\ body.form_loaded = ~Occurs("Form content not found", form)
                  /\ body.java_model_loaded = ~Occurs("Java model file not found", java)
                  /\ ~last.calls[1].file.exists
                        => (~body.form_loaded /\ body.form_size > 0)
                  /\ ~last.calls[2].file.exists
                        => (~body.java_model_loaded /\ body.java_model_size > 0)
                  /\ body.form_size = Len(form)
                  /\ body.java_model_size = Len(java)
                  /\ body.faiss_index_loaded = (pipelineState.index # None)
                  /\ body.metadata_loaded = ~pipelineState.metadata.isNone
                  /\ body.metadata_entries =
                        (IF pipelineState.metadata.isNone THEN 0
                         ELSE Len(pipelineState.metadata.entries))
        /\ \A i \in RaisedCalls :
              /\ last.resp.kind = "error" /\ last.resp.status = 500
              /\ last.resp.detail = last.calls[i].out.exc.msg

C8_Witness ==
    /\ IsRequest("info") /\ last.resp.kind = "json"
    /\ ~last.calls[1].file.exists /\ ~last.calls[2].file.exists
    /\ ~last.resp.body.form_loaded /\ ~last.resp.body.java_model_loaded
    /\ last.resp.body.form_size = 22 /\ last.resp.body.metadata_entries = 2

(***************************************************************************)
(* Properties of the bootstrap script                                      *)
(***************************************************************************)
Did(name) == \E i \in DOMAIN log : log[i].step = name
Commands == {"git --version", "git clone", "pip upgrade", "pip install"}

\* The place of each step in main.
Rank(name) ==
    CASE name = "git --version" -> 1
      [] name = "git clone" -> 2
      [] name = "venv.create" -> 3
      [] name = "write requirements.txt" -> 4
      [] name = "pip upgrade" -> 5
      [] name = "pip install" -> 6
      [] name = "write .env" -> 7
      [] name = "write run script" -> 8

\* C9 as stated: a run that follows a complete successful run and completes
\* repeats neither the clone, nor the venv creation, nor the dependency
\* installation, nor the writing of .env, and leaves the disk as it was.
C9_Original ==
    (prev.ended = "ok" /\ pc = "done") =>
        /\ ~Did("git clone") /\ ~Did("venv.create")
        /\ ~Did("pip upgrade") /\ ~Did("pip install")
        /\ ~Did("write .env")
        /\ disk = prev.disk

\* C9 amended: a run that follows a complete successful run does not clone,
\* does not create the virtual environment, and writes neither
\* requirements.txt nor .env; it does run git --version, the pip upgrade and
\* the dependency installation again and rewrites the launch script with the
\* same content; it fails only if one of those commands exits non-zero, and
\* the disk stays what the first run left throughout.
C9_SecondRun ==
    prev.ended = "ok" =>
        /\ ~Did("git clone") /\ ~Did("venv.create")
        /\ ~Did("write requirements.txt") /\ ~Did("write .env")
        /\ disk = prev.disk
        /\ disk.repo /\ disk.venv /\ disk.installed /\ disk.env # "absent"
        /\ pc = "exited"
              => /\ log[Len(log)].step \in {"git --version", "pip upgrade", "pip install"}
                 /\ ~log[Len(log)].ok
        /\ pc = "done"
              => /\ Did("git --version") /\ Did("pip upgrade") /\ Did("pip install")
                 /\ Did("write run script")
                 /\ \A i \in DOMAIN log : log[i].ok

C9_Witness ==
    /\ run = 2 /\ prev.ended = "ok" /\ pc = "done" /\ exitCode = 0
    /\ Did("pip install") /\ disk = prev.disk

\* C10: the steps of a run happen in the order git check, clone, venv,
\* requirements and pip, .env, launch script; a command that exits non-zero
\* is the last thing the run does and the run exits 1, so a failed pip leaves
\* .env and the launch script as they were; nothing done earlier is undone,
\* and a run that finds the directory or the venv on disk does not clone or
\* create it again.
C10_OrderAndAbort ==
    /\ \A i, j \in DOMAIN log : i < j => Rank(log[i].step) < Rank(log[j].step)
    /\ \A i \in DOMAIN log :
          ~log[i].ok => /\ i = Len(log) /\ log[i].step \in Commands
                        /\ pc = "exited" /\ exitCode = 1
    /\ pc = "exited" => /\ exitCode = 1 /\ log # <<>> /\ ~log[Len(log)].ok
                        /\ disk.env = atStart.env /\ disk.script = atStart.script
                        /\ ~Did("write .env") /\ ~Did("write run script")
    /\ pc = "done" => /\ exitCode = 0 /\ \A i \in DOMAIN log : log[i].ok
                      /\ Did("git --version") /\ Did("pip upgrade")
                      /\ Did("pip install") /\ Did("write run script")
    /\ pc \notin {"done", "exited"} => exitCode = "none"
    /\ (pc = "exited" /\ log[Len(log)].step \in {"git --version", "git clone"})
          => disk = atStart
    \* nothing is rolled back
    /\ atStart.repo => disk.repo
    /\ atStart.venv => disk.venv
    /\ atStart.requirements # "absent" => disk.requirements = atStart.requirements
    /\ atStart.env # "absent" => disk.env = atStart.env
    /\ (Did("git clone") /\ pc # "exited") => disk.repo
    /\ (\E i \in DOMAIN log : log[i].step = "git clone" /\ log[i].ok) => disk.repo
    /\ Did("venv.create") => disk.venv
    /\ Did("write requirements.txt") => disk.requirements = "basic"
    \* what is on disk is skipped
    /\ atStart.repo => ~Did("git clone")
    /\ atStart.venv => ~Did("venv.create")
    /\ run > 1 => atStart = prev.disk

C10_Witness ==
    /\ run = 2 /\ prev.ended = "failed" /\ atStart.repo /\ atStart.venv
    /\ ~atStart.installed /\ atStart.env = "absent"
    /\ pc = "exited" /\ log[Len(log)].step = "pip install"
    /\ disk.env = "absent" /\ disk.script = NoScript
====
